---- MODULE Spec2Model ----
(***************************************************************************)
(* Model of data-ingestion/ingest-properties.py: the bulk-ingestion and    *)
(* reindexing pipeline (main, retry_ingestion_with_instruqt_logic,         *)
(* bulk_load_from_memory, download_and_parallel_bulk_load,                 *)
(* ingest_raw_properties_data, instruqt_reindex_with_endpoints).           *)
(*                                                                         *)
(* A source stream is a list over four kinds of line: a line holding a     *)
(* JSON document the backend accepts, a line holding a JSON document the   *)
(* backend rejects, a line that is not JSON, and a blank line.  It is held *)
(* as its length and the sets of positions of the last three kinds, so     *)
(* that streams of the declared sizes (500, 5000, 48966 lines) stay small. *)
(* The backend (Elasticsearch) and the two libraries the script calls      *)
(* (requests, elasticsearch.helpers.parallel_bulk) are the environment.    *)
(*                                                                         *)
(* A second specification, ServerSpec, covers the connection setup of the  *)
(* script and of elastic_mcp_server.py (ElasticsearchConfig,               *)
(* create_elasticsearch_mcp_server) and the tools wake_inference_endpoints *)
(* and search_template of the server, over every combination of the        *)
(* connection settings.  In Spec the connection is the established one.    *)
(***************************************************************************)
EXTENDS Integers, Sequences, FiniteSets, TLC

VARIABLES
    args,            \* the parsed command line flags (lines 12-29)
    max_retries,     \* parameter of retry_ingestion_with_instruqt_logic
    source,          \* the line stream served at dataset_url
    ops,             \* operations of __main__ still to run
    op,              \* operation of __main__ in progress
    pc,              \* control location
    exit_code,       \* "running", 0 or 1
    idx,             \* backend index INDEX_NAME ("properties")
    orig,            \* backend index "original-properties"
    template,        \* TRUE once the search template is stored
    file,            \* content of failed_documents.json (<<>> with written = FALSE: absent)
    written,         \* TRUE once failed_documents.json exists
    faults,          \* backend/transport errors injected so far
    data_lines,      \* retry mode: the in-memory line buffer
    all_failed_docs, \* retry mode: failure records aggregated over attempts
    num_attempts,    \* retry mode: number of attempts
    attempt,         \* retry mode: current attempt (0 before the loop)
    success,         \* result of the last load / orchestrator call
    pos,             \* loader: lines consumed by the action generator
    success_count,   \* loader local
    error_count,     \* loader local
    failed_docs,     \* loader local: failure records of this load
    final_count,     \* loader local: last count read from the index
    expected_count,  \* loader local
    task,            \* the reindex task polled by the transform runner
    printed,         \* failure records surfaced on standard output
    log,             \* history of the events of the run
    env,             \* the credentials and identifiers the environment supplies
    srv,             \* connection setup and MCP server: control location, client, backend calls
    reply            \* what the last MCP tool call returned

vars == <<args, max_retries, source, ops, op, pc, exit_code, idx, orig, template,
          file, written, faults, data_lines, all_failed_docs, num_attempts,
          attempt, success, pos, success_count, error_count, failed_docs,
          final_count, expected_count, task, printed, log, env, srv, reply>>

(***************************************************************************)
(* Bounds of the model.                                                    *)
(***************************************************************************)
MaxRetries == 2     \* max_retries ranges over 0..MaxRetries
MaxFaults == 1      \* backend/transport errors per run
MaxLines == 3       \* length of the small source streams
MaxPolls == 2       \* polls of one reindex task that find it still running
MaxCalls == 2       \* backend calls a serving MCP server is followed for
LagNear == 20       \* documents not yet visible to a count: a few
LagFar == 101       \* documents not yet visible to a count: many

(***************************************************************************)
(* Program constants.                                                      *)
(***************************************************************************)
TINY_COUNT == 500       \* get_expected_document_count, tiny dataset
SMALL_COUNT == 5000     \* get_expected_document_count, small dataset
FULL_COUNT == 48966     \* get_expected_document_count, full dataset
INSTRUQT_EXPECTED == 500    \* expected_count of the constrained modes
CLOSE_FLOOR == 400      \* lower end of the "close" recheck window
SMALL_CHUNK == 10       \* chunk_size of the constrained modes
LARGE_CHUNK == 500      \* chunk_size otherwise
REINDEX_SIZE == 10      \* "size" of the second reindex request
UnknownLine == 0        \* the line_number "unknown" (line numbers start at 1)

\* lines 276, 367: the number of submission errors printed as they occur
ERROR_CAP == 10

Flags == {"searchtemplate", "full_ingestion", "recreate_index",
          "use_small_5k_dataset", "use_500_dataset", "ingest_raw_500_dataset",
          "instruqt", "instruqt_reindex_with_endpoints"}

(***************************************************************************)
(* Line streams.                                                           *)
(***************************************************************************)
Stream(n, bad, rej, blank) == [n |-> n, bad |-> bad, rej |-> rej, blank |-> blank]

Min(S) == CHOOSE x \in S : \A y \in S : x <= y

RECURSIVE Ascending(_)
Ascending(S) == IF S = {} THEN <<>> ELSE <<Min(S)>> \o Ascending(S \ {Min(S)})

\* Number of blank lines before line i of d.
BlanksBefore(d, i) == Cardinality({b \in d.blank : b < i})

\* What "for line in response.iter_lines(): if line: data_lines.append(...)"
\* keeps: the non-blank lines, renumbered by their place in the buffer.
FilterBlank(d) ==
    [n |-> d.n - Cardinality(d.blank),
     bad |-> {i - BlanksBefore(d, i) : i \in d.bad},
     rej |-> {i - BlanksBefore(d, i) : i \in d.rej},
     blank |-> {}]

\* The line of the source stream that became line k of the buffer.
SrcLine(d, k) == CHOOSE i \in 1..d.n : i \notin d.blank /\ i - BlanksBefore(d, i) = k

\* Lines p+1..e of d that json.loads decodes (neither blank nor malformed).
Decoded(d, p, e) == {i \in (p + 1)..e : i \notin d.bad /\ i \notin d.blank}

\* blank lines are decoded and submitted like any other line
NumDecodedWithBlank(d, p, e) ==
    (e - p) - Cardinality({s \in d.bad : p < s /\ s <= e})

NumDecoded(d, p, e) ==
    (e - p) - Cardinality({s \in d.bad \cup d.blank : p < s /\ s <= e})

\* helpers._chunk_actions: the generator is pulled until the chunk holds c
\* actions or the lines are exhausted; the line at which it then stands.
ChunkEnd(d, p, c) ==
    LET skip == {s \in d.bad \cup d.blank : s > p}
        cand == {e \in (p + c)..(p + c + Cardinality(skip)) :
                    e <= d.n /\ NumDecoded(d, p, e) = c}
    IN  IF cand = {} THEN d.n ELSE Min(cand)

\* Lines p+1..e whose decoding raises json.JSONDecodeError, in order.
DecodeErrors(d, p, e) == Ascending({i \in d.bad : p < i /\ i <= e})

\* Documents of lines p+1..e the backend rejects / accepts.
Rejected(d, p, e) == {i \in d.rej : p < i /\ i <= e}
NumAccepted(d, p, e) == NumDecoded(d, p, e) - Cardinality(Rejected(d, p, e))

(***************************************************************************)
(* Failure records.                                                        *)
(***************************************************************************)
\* lines 335-339: the record of a line that failed to decode
DecodeFailure(line_num) ==
    [line_number |-> line_num, error |-> "JSON decode error", doc |-> 0]

\* lines 427-432: the record of a document of a BulkIndexError; doc stands
\* for the identifier the backend gave the document
BulkFailure(i) ==
    [line_number |-> UnknownLine, error |-> "index error", doc |-> i]

\* the records of the lines / documents of s, in order
DecodeFailures(s) == [k \in 1..Len(s) |-> DecodeFailure(s[k])]

BulkFailures(s) == [k \in 1..Len(s) |-> BulkFailure(s[k])]

Range(s) == {s[i] : i \in 1..Len(s)}

(***************************************************************************)
(* Configuration derived from the flags.                                   *)
(***************************************************************************)
Constrained == "instruqt" \in args \/ "ingest_raw_500_dataset" \in args

\* lines 756-769: the dataset variant whose URL is downloaded
DatasetUrl(a) ==
    IF "ingest_raw_500_dataset" \in a THEN "PROPERTIES_500_URL"
    ELSE IF "instruqt" \in a THEN "PROPERTIES_500_URL"
    ELSE IF "use_500_dataset" \in a THEN "PROPERTIES_500_URL"
    ELSE IF "use_small_5k_dataset" \in a THEN "PROPERTIES_5000_URL"
    ELSE "PROPERTIES_FULL_URL"

\* the lookup with the small variant tested before the tiny one
ExpectedSmallFirst(use_small_dataset, use_tiny_dataset) ==
    IF use_small_dataset THEN SMALL_COUNT
    ELSE IF use_tiny_dataset THEN TINY_COUNT
    ELSE FULL_COUNT

\* lines 96-103
get_expected_document_count(use_small_dataset, use_tiny_dataset) ==
    IF use_tiny_dataset THEN TINY_COUNT
    ELSE IF use_small_dataset THEN SMALL_COUNT
    ELSE FULL_COUNT

\* lines 88-94: INDEX_MAPPING_FILE
IndexMapping ==
    IF "ingest_raw_500_dataset" \in args THEN "raw"
    ELSE IF "instruqt_reindex_with_endpoints" \in args THEN "instruqt"
    ELSE "properties"

\* the in-memory loader uses the large chunk size in every mode
MemChunkSizeLarge == LARGE_CHUNK

\* line 318: chunk_size of bulk_load_from_memory
MemChunkSize ==
    IF Constrained \/ "instruqt_reindex_with_endpoints" \in args
    THEN SMALL_CHUNK ELSE LARGE_CHUNK

\* lines 398-401: expected_count of bulk_load_from_memory
MemExpected ==
    IF Constrained \/ "instruqt_reindex_with_endpoints" \in args
    THEN INSTRUQT_EXPECTED
    ELSE get_expected_document_count("use_small_5k_dataset" \in args,
                                     "use_500_dataset" \in args)

\* line 464
NumAttempts(mr) == IF mr = 0 THEN 1 ELSE mr + 1

\* lines 774-869: the operations __main__ runs, in order
Operations(a) ==
    LET pick(f, o) == IF f \in a THEN <<o>> ELSE <<>>
        named == pick("searchtemplate", "searchtemplate")
                 \o pick("full_ingestion", "full")
                 \o pick("recreate_index", "recreate")
                 \o pick("instruqt_reindex_with_endpoints", "reindex")
    IN  IF named = <<>> THEN <<"default">> ELSE named

\* the verdict with the comparison loosened to "at least"
CountAtLeast(final, expected) == final >= expected

\* line 412 (and 303, 626): the verdict of the count verifier
CountMatches(final, expected) == final = expected

\* the test of the floor turned round
CloseButUnderFlipped(final, expected) ==
    /\ Constrained \/ "instruqt_reindex_with_endpoints" \in args
    /\ final <= CLOSE_FLOOR
    /\ final < expected

\* lines 405-406: the count is close to the expected count but under it
CloseButUnder(final, expected) ==
    /\ Constrained \/ "instruqt_reindex_with_endpoints" \in args
    /\ final >= CLOSE_FLOOR
    /\ final < expected

(***************************************************************************)
(* The backend.                                                            *)
(***************************************************************************)
NoIndex == [exists |-> FALSE, mapping |-> "none", docs |-> 0, stale |-> 0]

\* An index left by an earlier run.
PriorIndex == [exists |-> TRUE, mapping |-> "prior", docs |-> 0, stale |-> TINY_COUNT]

\* what es.count can return: the documents of the index, less those a
\* refresh has not made visible yet
Visible(ix) ==
    {(ix.docs + ix.stale) - l : l \in {l \in {0, LagNear, LagFar} : l <= ix.docs}}

\* lines 199-203 (and 540-544): delete the index if it exists, then create it
DropAndCreate(ix, mapping) ==
    [exists |-> TRUE, mapping |-> mapping, docs |-> 0, stale |-> 0]

\* bulk requests add documents to the index
Indexed(ix, k) == [ix EXCEPT !.docs = @ + k, !.exists = TRUE]

(***************************************************************************)
(* Inputs.                                                                 *)
(***************************************************************************)
ArgChoices ==
    {{}, {"use_500_dataset"}, {"use_small_5k_dataset"},
     {"use_500_dataset", "use_small_5k_dataset"},
     {"full_ingestion", "use_500_dataset"}, {"recreate_index"},
     {"searchtemplate"},
     {"instruqt"}, {"ingest_raw_500_dataset"},
     {"instruqt", "ingest_raw_500_dataset"},
     {"instruqt", "full_ingestion"}, {"instruqt", "recreate_index"},
     {"ingest_raw_500_dataset", "recreate_index", "use_small_5k_dataset"},
     {"instruqt_reindex_with_endpoints"},
     {"instruqt", "full_ingestion", "instruqt_reindex_with_endpoints"},
     {"ingest_raw_500_dataset", "full_ingestion", "instruqt_reindex_with_endpoints"}}

\* Short streams: MaxLines lines, at most one line of each special kind.
SmallStreams ==
    LET few == {{}} \cup {{i} : i \in 1..MaxLines}
    IN  {d \in [n : {MaxLines}, bad : few, rej : few, blank : few] :
            /\ d.bad \cap d.rej = {}
            /\ d.bad \cap d.blank = {}
            /\ d.rej \cap d.blank = {}}

\* What the server can hold at a dataset URL.
Served(url) ==
    IF url = "PROPERTIES_500_URL"
    THEN SmallStreams \cup
         {Stream(TINY_COUNT, {}, {}, {}), Stream(TINY_COUNT, {237}, {}, {}),
          Stream(TINY_COUNT, {}, {237}, {}), Stream(TINY_COUNT + 1, {}, {}, {1}),
          Stream(TINY_COUNT + 1, {}, {}, {}),
          Stream(TINY_COUNT, 1..(ERROR_CAP + 1), {}, {})}
    ELSE IF url = "PROPERTIES_5000_URL"
    THEN {Stream(SMALL_COUNT, {}, {}, {}), Stream(SMALL_COUNT, {SMALL_COUNT}, {}, {})}
    ELSE {Stream(FULL_COUNT, {}, {}, {}), Stream(FULL_COUNT, {1}, {}, {})}

\* No client built yet / the client the script holds once lines 146-188
\* have run: the pipeline starts from there.
NoClient == [api_key |-> FALSE, basic_auth |-> FALSE]
ApiKeyEnv == [url |-> TRUE, api_key |-> TRUE, username |-> FALSE, password |-> FALSE,
          use_password_auth |-> FALSE, jq |-> "key",
          inference_id |-> FALSE, e5_inference_id |-> FALSE]
Connected == [prog |-> "ingest", pc |-> "connected",
              client |-> [api_key |-> TRUE, basic_auth |-> FALSE], calls |-> 1,
              health |-> <<>>]
NoReply == [tool |-> "none"]

Init ==
    /\ args \in ArgChoices
    /\ max_retries \in 0..MaxRetries
    /\ source \in Served(DatasetUrl(args))
    /\ ops = Operations(args)
    /\ op = "none"
    /\ pc = "main"
    /\ exit_code = "running"
    /\ idx \in {NoIndex, PriorIndex}
    /\ orig = NoIndex
    /\ template = FALSE
    /\ file = <<>>
    /\ written = FALSE
    /\ faults = 0
    /\ data_lines = Stream(0, {}, {}, {})
    /\ all_failed_docs = <<>>
    /\ num_attempts = 0
    /\ attempt = 0
    /\ success = FALSE
    /\ pos = 0
    /\ success_count = 0
    /\ error_count = 0
    /\ failed_docs = <<>>
    /\ final_count = 0
    /\ expected_count = 0
    /\ task = [state |-> "none", created |-> 0, polls |-> 0, wanted |-> 0, step |-> 0]
    /\ printed = {}
    /\ log = <<>>
    /\ env = ApiKeyEnv
    /\ srv = Connected
    /\ reply = NoReply

cfgv == <<args, max_retries, source, env, srv, reply>>
orchv == <<data_lines, all_failed_docs, num_attempts, attempt>>
loadv == <<pos, success_count, error_count, failed_docs, final_count, expected_count>>
filev == <<file, written>>

Logged(events) == log' = log \o events

\* An exception nothing catches: the interpreter prints the traceback and
\* exits with status 1.
Crash(events) ==
    /\ pc' = "done"
    /\ exit_code' = 1
    /\ Logged(events \o <<<<"crash", 0>>>>)

NoLocals ==
    /\ pos' = 0
    /\ success_count' = 0
    /\ error_count' = 0
    /\ failed_docs' = <<>>
    /\ final_count' = 0
    /\ expected_count' = 0

PersistFlag == "instruqt_reindex_with_endpoints" \in args

(***************************************************************************)
(* __main__                                                                *)
(***************************************************************************)
\* lines 776, 782, 822, 855, 869: the next operation the flags ask for
MainDispatch ==
    /\ pc = "main"
    /\ ops # <<>>
    /\ op' = Head(ops)
    /\ ops' = Tail(ops)
    /\ pc' = IF Head(ops) = "searchtemplate" THEN "searchtemplate"
             ELSE IF Head(ops) = "reindex" THEN "rx_step1"
             ELSE IF Constrained THEN "orch_download"
             ELSE "reg_create"
    /\ UNCHANGED <<cfgv, exit_code, idx, orig, template, filev, faults, orchv,
                   success, loadv, task, printed, log>>

\* the script reaches its end: exit status 0
MainExit ==
    /\ pc = "main"
    /\ ops = <<>>
    /\ pc' = "done"
    /\ exit_code' = 0
    /\ Logged(<<<<"complete", 0>>>>)
    /\ UNCHANGED <<cfgv, ops, op, idx, orig, template, filev, faults, orchv,
                   success, loadv, task, printed>>

\* lines 206-215: create_search_template; an error is printed and swallowed
CreateSearchTemplate ==
    /\ pc \in {"searchtemplate", "reg_template", "after_template"}
    /\ \/ template' = TRUE /\ UNCHANGED faults
       \/ faults < MaxFaults /\ faults' = faults + 1 /\ UNCHANGED template
    /\ pc' = IF pc = "reg_template" THEN "reg_download" ELSE "main"
    /\ Logged(<<<<"template", 0>>>>)
    /\ UNCHANGED <<cfgv, ops, op, exit_code, idx, orig, filev, orchv, success,
                   loadv, task, printed>>

(***************************************************************************)
(* retry_ingestion_with_instruqt_logic                                     *)
(***************************************************************************)
\* lines 447-464: the download succeeds and the lines are buffered
OrchDownload ==
    /\ pc = "orch_download"
    /\ data_lines' = FilterBlank(source)
    /\ all_failed_docs' = <<>>
    /\ num_attempts' = NumAttempts(max_retries)
    /\ attempt' = 1
    /\ pc' = "orch_create"
    /\ Logged(<<<<"download", 0>>>>)
    /\ UNCHANGED <<cfgv, ops, op, exit_code, idx, orig, template, filev, faults,
                   success, loadv, task, printed>>

\* the status of the response is not checked: the attempts start on an
\* empty buffer
OrchDownloadUnchecked ==
    /\ pc = "orch_download"
    /\ data_lines' = Stream(0, {}, {}, {})
    /\ all_failed_docs' = <<>>
    /\ num_attempts' = NumAttempts(max_retries)
    /\ attempt' = 1
    /\ pc' = "orch_create"
    /\ Logged(<<<<"download_failed", 0>>>>)
    /\ UNCHANGED <<cfgv, ops, op, exit_code, idx, orig, template, filev, faults,
                   success, loadv, task, printed>>

\* lines 448-449: raise_for_status raises; nothing in the script catches it
OrchDownloadFails ==
    /\ pc = "orch_download"
    /\ Crash(<<<<"download_failed", 0>>>>)
    /\ UNCHANGED <<cfgv, ops, op, idx, orig, template, filev, faults, orchv,
                   success, loadv, task, printed>>

\* the retry test off by one
RetryRemainsOffByOne == attempt <= num_attempts

\* lines 498, 520: another attempt follows
RetryRemains == attempt < num_attempts

\* the records are written only after a load that succeeded
SaveOnSuccess(docs) == docs # <<>> /\ PersistFlag /\ success

\* lines 488, 505, 527: the aggregated records are written to the file
SaveWanted(docs) == docs # <<>> /\ PersistFlag

\* lines 514-533: the handler of an exception raised inside an attempt
OrchExcept ==
    IF RetryRemains
    THEN /\ pc' = "orch_backoff"
         /\ Logged(<<<<"attempt_failed", attempt>>>>)
         /\ UNCHANGED <<filev, success>>
    ELSE /\ pc' = "orch_return"
         /\ success' = FALSE
         /\ IF SaveWanted(all_failed_docs)
            THEN /\ file' = all_failed_docs
                 /\ written' = TRUE
                 /\ Logged(<<<<"attempt_failed", attempt>>, <<"file_write", attempt>>,
                             <<"exhausted", attempt>>>>)
            ELSE /\ UNCHANGED filev
                 /\ Logged(<<<<"attempt_failed", attempt>>, <<"exhausted", attempt>>>>)

\* an index that exists is kept as it is
create_properties_index_if_absent ==
    idx' = IF idx.exists THEN idx ELSE DropAndCreate(idx, IndexMapping)

\* lines 192-204: create_properties_index: any prior index is deleted and
\* an empty one is created
create_properties_index ==
    idx' = DropAndCreate(idx, IndexMapping)

\* lines 472-475: the attempt starts by recreating the index
OrchCreate ==
    /\ pc = "orch_create"
    /\ create_properties_index
    /\ pc' = "mem_start"
    /\ Logged(<<<<"create", attempt>>>>)
    /\ UNCHANGED <<cfgv, ops, op, exit_code, orig, template, filev, faults, orchv,
                   success, loadv, task, printed>>

\* a backend call of create_properties_index raises: before the delete, or
\* between the delete and the create
OrchCreateFails ==
    /\ pc = "orch_create"
    /\ faults < MaxFaults
    /\ faults' = faults + 1
    /\ idx' \in {idx, NoIndex}
    /\ OrchExcept
    /\ UNCHANGED <<cfgv, ops, op, exit_code, orig, template, orchv, loadv, task,
                   printed>>

\* the next iteration downloads the source again
OrchBackoffRedownload ==
    /\ pc = "orch_backoff"
    /\ attempt' = attempt + 1
    /\ pc' = "orch_download"
    /\ Logged(<<<<"backoff", attempt>>>>)
    /\ UNCHANGED <<cfgv, ops, op, exit_code, idx, orig, template, filev, faults,
                   data_lines, all_failed_docs, num_attempts, success, loadv, task,
                   printed>>

\* the next iteration starts at once, without the wait
OrchBackoffNoWait ==
    /\ pc = "orch_backoff"
    /\ attempt' = attempt + 1
    /\ pc' = "orch_create"
    /\ UNCHANGED <<cfgv, ops, op, exit_code, idx, orig, template, filev, faults,
                   data_lines, all_failed_docs, num_attempts, success, loadv, task,
                   printed, log>>

\* lines 498-500, 520-522: time.sleep(30), then the next iteration
OrchBackoff ==
    /\ pc = "orch_backoff"
    /\ attempt' = attempt + 1
    /\ pc' = "orch_create"
    /\ Logged(<<<<"backoff", attempt>>>>)
    /\ UNCHANGED <<cfgv, ops, op, exit_code, idx, orig, template, filev, faults,
                   data_lines, all_failed_docs, num_attempts, success, loadv, task,
                   printed>>

\* the loop goes on to the next attempt after a load that succeeded
OrchCollectNoBreak ==
    /\ pc = "orch_collect"
    /\ all_failed_docs' = all_failed_docs \o failed_docs
    /\ pc' = IF RetryRemains THEN "orch_backoff" ELSE "orch_return"
    /\ Logged(<<<<IF success THEN "success" ELSE "attempt_failed", attempt>>>>)
    /\ UNCHANGED <<cfgv, ops, op, exit_code, idx, orig, template, filev, faults,
                   data_lines, num_attempts, attempt, success, loadv, task, printed>>

\* lines 477-512: the load returned (success, failed_docs)
OrchCollect ==
    /\ pc = "orch_collect"
    /\ all_failed_docs' = all_failed_docs \o failed_docs
    /\ IF success
       THEN /\ pc' = "orch_return"
            /\ IF SaveWanted(all_failed_docs')
               THEN /\ file' = all_failed_docs'
                    /\ written' = TRUE
                    /\ Logged(<<<<"file_write", attempt>>, <<"success", attempt>>>>)
               ELSE /\ UNCHANGED filev
                    /\ Logged(<<<<"success", attempt>>>>)
       ELSE IF RetryRemains
       THEN /\ pc' = "orch_backoff"
            /\ Logged(<<<<"attempt_failed", attempt>>>>)
            /\ UNCHANGED filev
       ELSE /\ pc' = "orch_return"
            /\ IF SaveWanted(all_failed_docs')
               THEN /\ file' = all_failed_docs'
                    /\ written' = TRUE
                    /\ Logged(<<<<"attempt_failed", attempt>>, <<"file_write", attempt>>,
                                <<"exhausted", attempt>>>>)
               ELSE /\ UNCHANGED filev
                    /\ Logged(<<<<"attempt_failed", attempt>>, <<"exhausted", attempt>>>>)
    /\ UNCHANGED <<cfgv, ops, op, exit_code, idx, orig, template, faults, data_lines,
                   num_attempts, attempt, success, loadv, task, printed>>

(***************************************************************************)
(* bulk_load_from_memory                                                   *)
(***************************************************************************)
\* lines 312-318: the locals of a load.  The documents an earlier load left
\* in the index, if any, are from now on counted as stale.
MemStart ==
    /\ pc = "mem_start"
    /\ pos' = 0
    /\ success_count' = 0
    /\ error_count' = 0
    /\ failed_docs' = <<>>
    /\ final_count' = 0
    /\ expected_count' = 0
    /\ idx' = [idx EXCEPT !.stale = @ + idx.docs, !.docs = 0]
    /\ pc' = "mem_bulk"
    /\ Logged(<<<<"load", attempt>>>>)
    /\ UNCHANGED <<cfgv, ops, op, exit_code, orig, template, filev, faults, orchv,
                   success, task, printed>>

\* lines 320-353: the next chunk: its lines are decoded (a line that does
\* not decode is printed and recorded), its documents are submitted and
\* every one is accepted; the loop counts them
MemChunk ==
    /\ pc = "mem_bulk"
    /\ pos < data_lines.n
    /\ LET e == ChunkEnd(data_lines, pos, MemChunkSize)
           fails == DecodeFailures(DecodeErrors(data_lines, pos, e))
       IN  /\ Rejected(data_lines, pos, e) = {}
           /\ pos' = e
           /\ success_count' = success_count + NumDecoded(data_lines, pos, e)
           /\ failed_docs' = failed_docs \o fails
           /\ printed' = printed \cup Range(fails)
           /\ idx' = Indexed(idx, NumDecoded(data_lines, pos, e))
    /\ UNCHANGED <<cfgv, ops, op, pc, exit_code, orig, template, filev, faults,
                   orchv, success, error_count, final_count, expected_count, task,
                   log>>

\* lines 419-443: the backend rejects documents of the next chunk and
\* parallel_bulk (raise_on_error is left at its default) raises
\* BulkIndexError.  The accepted documents of the chunk are indexed; the
\* chunks after it either were not started or (rest) were all decoded and
\* submitted by the pool before the exception reached the loop.
MemBulkIndexError ==
    /\ pc = "mem_bulk"
    /\ pos < data_lines.n
    /\ \E rest \in BOOLEAN :
       LET e == ChunkEnd(data_lines, pos, MemChunkSize)
           upto == IF rest THEN data_lines.n ELSE e
           fails == DecodeFailures(DecodeErrors(data_lines, pos, upto))
           errors == BulkFailures(Ascending(Rejected(data_lines, pos, e)))
       IN  /\ Rejected(data_lines, pos, e) # {}
           /\ idx' = Indexed(idx, NumAccepted(data_lines, pos, upto))
           /\ pos' = upto
           /\ failed_docs' = failed_docs \o fails \o errors
           /\ printed' = printed \cup Range(fails) \cup Range(errors)
           /\ IF PersistFlag
              THEN /\ file' = failed_docs'
                   /\ written' = TRUE
                   /\ Logged(<<<<"bulk_index_error", attempt>>, <<"file_write", attempt>>>>)
              ELSE /\ UNCHANGED filev
                   /\ Logged(<<<<"bulk_index_error", attempt>>>>)
    /\ success' = FALSE
    /\ pc' = "orch_collect"
    /\ UNCHANGED <<cfgv, ops, op, exit_code, orig, template, faults, orchv,
                   success_count, error_count, final_count, expected_count, task>>

\* the bulk request of the next chunk fails as a whole (connection error,
\* request too large): parallel_bulk raises an exception that is not a
\* BulkIndexError, and it leaves bulk_load_from_memory
MemTransportError ==
    /\ pc = "mem_bulk"
    /\ pos < data_lines.n
    /\ faults < MaxFaults
    /\ faults' = faults + 1
    /\ \E rest \in BOOLEAN :
       LET e == ChunkEnd(data_lines, pos, MemChunkSize)
           fails == DecodeFailures(DecodeErrors(data_lines, pos, IF rest THEN data_lines.n ELSE e))
       IN  /\ idx' = Indexed(idx, IF rest THEN NumAccepted(data_lines, e, data_lines.n) ELSE 0)
           /\ printed' = printed \cup Range(fails)
    /\ NoLocals
    /\ OrchExcept
    /\ UNCHANGED <<cfgv, ops, op, exit_code, orig, template, orchv, task>>

\* the count is read without the settle delay
MemReportNoSettle ==
    /\ pc = "mem_bulk"
    /\ pos = data_lines.n
    /\ printed' = IF error_count > 0 THEN printed \cup Range(failed_docs) ELSE printed
    /\ IF error_count > 0 /\ PersistFlag
       THEN file' = failed_docs /\ written' = TRUE
       ELSE UNCHANGED filev
    /\ Logged(IF error_count > 0 /\ PersistFlag
              THEN <<<<"file_write", attempt>>>> ELSE <<>>)
    /\ pc' = "mem_count"
    /\ UNCHANGED <<cfgv, ops, op, exit_code, idx, orig, template, faults, orchv,
                   success, loadv, task>>

\* lines 370-393: the loop is over; the report, and the settle delay of the
\* constrained modes
MemReport ==
    /\ pc = "mem_bulk"
    /\ pos = data_lines.n
    /\ printed' = IF error_count > 0 THEN printed \cup Range(failed_docs) ELSE printed
    /\ IF error_count > 0 /\ PersistFlag
       THEN file' = failed_docs /\ written' = TRUE
       ELSE UNCHANGED filev
    /\ Logged((IF error_count > 0 /\ PersistFlag
               THEN <<<<"file_write", attempt>>>> ELSE <<>>)
              \o (IF Constrained \/ PersistFlag THEN <<<<"sleep", 30>>>> ELSE <<>>))
    /\ pc' = "mem_count"
    /\ UNCHANGED <<cfgv, ops, op, exit_code, idx, orig, template, faults, orchv,
                   success, loadv, task>>

\* lines 395-417: the count is read; unless it is close but under, the
\* verdict is returned
MemCount ==
    /\ pc = "mem_count"
    /\ \E c \in Visible(idx) :
          /\ final_count' = c
          /\ expected_count' = MemExpected
          /\ IF CloseButUnder(c, MemExpected)
             THEN /\ pc' = "mem_recheck"
                  /\ UNCHANGED success
             ELSE /\ pc' = "orch_collect"
                  /\ success' = CountMatches(c, MemExpected)
          /\ Logged(<<<<"count", c>>>>)
    /\ UNCHANGED <<cfgv, ops, op, exit_code, idx, orig, template, filev, faults,
                   orchv, pos, success_count, error_count, failed_docs, task, printed>>

\* the wait and the second reading are repeated while the count is close
MemRecheckAgain ==
    /\ pc = "mem_recheck"
    /\ \E c \in Visible(idx) :
          /\ final_count' = c
          /\ success' = CountMatches(c, expected_count)
          /\ Logged(<<<<"sleep", 20>>, <<"count", c>>>>)
          /\ pc' = IF CloseButUnder(c, expected_count) THEN "mem_recheck"
                   ELSE "orch_collect"
    /\ UNCHANGED <<cfgv, ops, op, exit_code, idx, orig, template, filev, faults,
                   orchv, pos, success_count, error_count, failed_docs,
                   expected_count, task, printed>>

\* lines 407-417: twenty more seconds, the count is read again, the verdict
MemRecheck ==
    /\ pc = "mem_recheck"
    /\ \E c \in Visible(idx) :
          /\ final_count' = c
          /\ success' = CountMatches(c, expected_count)
          /\ Logged(<<<<"sleep", 20>>, <<"count", c>>>>)
    /\ pc' = "orch_collect"
    /\ UNCHANGED <<cfgv, ops, op, exit_code, idx, orig, template, filev, faults,
                   orchv, pos, success_count, error_count, failed_docs,
                   expected_count, task, printed>>

\* es.count raises (lines 396, 409): the exception leaves the load
MemCountFails ==
    /\ pc \in {"mem_count", "mem_recheck"}
    /\ faults < MaxFaults
    /\ faults' = faults + 1
    /\ NoLocals
    /\ OrchExcept
    /\ UNCHANGED <<cfgv, ops, op, exit_code, idx, orig, template, orchv, task, printed>>

(***************************************************************************)
(* The streaming loaders: download_and_parallel_bulk_load and              *)
(* ingest_raw_properties_data                                              *)
(***************************************************************************)
\* line 250: chunk_size of download_and_parallel_bulk_load
StreamChunkSize == IF Constrained THEN SMALL_CHUNK ELSE LARGE_CHUNK

\* lines 298-301: expected_count of download_and_parallel_bulk_load
StreamExpected ==
    IF Constrained THEN INSTRUQT_EXPECTED
    ELSE get_expected_document_count("use_small_5k_dataset" \in args,
                                     "use_500_dataset" \in args)

\* lines 226-262 (554-590): the next chunk of a streaming load: blank lines
\* are skipped, a line that does not decode is printed (no record is kept),
\* the documents are submitted and all accepted
StreamChunk(chunk_size) ==
    LET e == ChunkEnd(source, pos, chunk_size)
        fails == DecodeFailures(DecodeErrors(source, pos, e))
    IN  /\ pos < source.n
        /\ Rejected(source, pos, e) = {}
        /\ pos' = e
        /\ success_count' = success_count + NumDecoded(source, pos, e)
        /\ printed' = printed \cup Range(fails)
        /\ idx' = Indexed(idx, NumDecoded(source, pos, e))

\* lines 252-258 (580-586): parallel_bulk raises (BulkIndexError for
\* rejected documents, or the error of a failed bulk request); neither
\* streaming loader catches it
StreamRaises(chunk_size, rest) ==
    LET e == ChunkEnd(source, pos, chunk_size)
        upto == IF rest THEN source.n ELSE e
        fails == DecodeFailures(DecodeErrors(source, pos, upto))
    IN  /\ pos < source.n
        /\ \/ /\ Rejected(source, pos, e) # {}
              /\ idx' = Indexed(idx, NumAccepted(source, pos, upto))
              /\ UNCHANGED faults
           \/ /\ faults < MaxFaults
              /\ faults' = faults + 1
              /\ idx' = Indexed(idx, IF rest THEN NumAccepted(source, e, source.n) ELSE 0)
        /\ printed' = printed \cup Range(fails)
        /\ NoLocals
        /\ Crash(<<<<"bulk_raised", 0>>>>)

\* lines 217-224, 244-247: the download starts, the locals of the load
RegDownload ==
    /\ pc = "reg_download"
    /\ pos' = 0
    /\ success_count' = 0
    /\ error_count' = 0
    /\ failed_docs' = <<>>
    /\ final_count' = 0
    /\ expected_count' = 0
    /\ idx' = [idx EXCEPT !.stale = @ + idx.docs, !.docs = 0]
    /\ pc' = "reg_bulk"
    /\ Logged(<<<<"stream_download", 0>>, <<"load", 0>>>>)
    /\ UNCHANGED <<cfgv, ops, op, exit_code, orig, template, filev, faults, orchv,
                   success, task, printed>>

\* lines 222-223: raise_for_status raises
RegDownloadFails ==
    /\ pc = "reg_download"
    /\ Crash(<<<<"stream_download_failed", 0>>>>)
    /\ UNCHANGED <<cfgv, ops, op, idx, orig, template, filev, faults, orchv,
                   success, loadv, task, printed>>

\* lines 815, 850, 902: create_properties_index, outside any try
RegCreate ==
    /\ pc = "reg_create"
    /\ create_properties_index
    /\ pc' = IF op = "recreate" THEN "reg_download" ELSE "reg_template"
    /\ Logged(<<<<"create", 0>>>>)
    /\ UNCHANGED <<cfgv, ops, op, exit_code, orig, template, filev, faults, orchv,
                   success, loadv, task, printed>>

RegCreateFails ==
    /\ pc = "reg_create"
    /\ faults < MaxFaults
    /\ faults' = faults + 1
    /\ idx' \in {idx, NoIndex}
    /\ Crash(<<>>)
    /\ UNCHANGED <<cfgv, ops, op, orig, template, filev, orchv, success, loadv,
                   task, printed>>

RegChunk ==
    /\ pc = "reg_bulk"
    /\ StreamChunk(StreamChunkSize)
    /\ UNCHANGED <<cfgv, ops, op, pc, exit_code, orig, template, filev, faults,
                   orchv, success, error_count, failed_docs, final_count,
                   expected_count, task, log>>

RegBulkRaises ==
    /\ pc = "reg_bulk"
    /\ \E rest \in BOOLEAN : StreamRaises(StreamChunkSize, rest)
    /\ UNCHANGED <<cfgv, ops, op, orig, template, filev, orchv, success, task>>

\* lines 279-308: the report, the settle delay of the constrained modes,
\* the count and the verdict, which is returned
RegCount ==
    /\ pc = "reg_bulk"
    /\ pos = source.n
    /\ \E c \in Visible(idx) :
          /\ final_count' = c
          /\ expected_count' = StreamExpected
          /\ success' = CountMatches(c, StreamExpected)
          /\ Logged((IF Constrained THEN <<<<"sleep", 20>>>> ELSE <<>>)
                    \o <<<<"count", c>>>>)
    /\ pc' = "reg_return"
    /\ UNCHANGED <<cfgv, ops, op, exit_code, idx, orig, template, filev, faults,
                   orchv, pos, success_count, error_count, failed_docs, task, printed>>

RegCountFails ==
    /\ pc = "reg_bulk"
    /\ pos = source.n
    /\ faults < MaxFaults
    /\ faults' = faults + 1
    /\ NoLocals
    /\ Crash(<<>>)
    /\ UNCHANGED <<cfgv, ops, op, idx, orig, template, filev, orchv, success, task,
                   printed>>

\* lines 817-819, 851-852, 904-906: the value download_and_parallel_bulk_load
\* returned is not looked at; the pipeline is announced complete
RegReturn ==
    /\ pc = "reg_return"
    /\ pc' = "main"
    /\ Logged(<<<<"pipeline_complete", 0>>>>)
    /\ UNCHANGED <<cfgv, ops, op, exit_code, idx, orig, template, filev, faults,
                   orchv, success, loadv, task, printed>>

\* the pipeline is reported complete after the orchestrated load alone
MainAfterOrchNoRaw ==
    /\ pc = "orch_return"
    /\ IF ~success
       THEN /\ pc' = "done"
            /\ exit_code' = 1
            /\ Logged(<<<<"exit", 1>>>>)
       ELSE /\ UNCHANGED exit_code
            /\ pc' = IF op = "recreate" THEN "main" ELSE "after_template"
            /\ Logged(<<<<"pipeline_complete", 0>>>>)
    /\ UNCHANGED <<cfgv, ops, op, idx, orig, template, filev, faults, orchv,
                   success, loadv, task, printed>>

\* lines 786-802 (805-812, 826-847, 873-899): what __main__ does with the
\* value retry_ingestion_with_instruqt_logic returned
MainAfterOrch ==
    /\ pc = "orch_return"
    /\ IF ~success
       THEN /\ pc' = "done"
            /\ exit_code' = 1
            /\ Logged(<<<<"exit", 1>>>>)
       ELSE /\ UNCHANGED exit_code
            /\ IF "instruqt" \in args
               THEN pc' = "raw_create" /\ UNCHANGED log
               ELSE IF op = "recreate"
               THEN pc' = "main" /\ Logged(<<<<"pipeline_complete", 0>>>>)
               ELSE pc' = "after_template" /\ Logged(<<<<"pipeline_complete", 0>>>>)
    /\ UNCHANGED <<cfgv, ops, op, idx, orig, template, filev, faults, orchv,
                   success, loadv, task, printed>>

\* lines 535-545: create_raw_properties_index
create_raw_properties_index ==
    idx' = DropAndCreate(idx, "raw")

RawCreate ==
    /\ pc = "raw_create"
    /\ create_raw_properties_index
    /\ pc' = "raw_download"
    /\ Logged(<<<<"create", 0>>>>)
    /\ UNCHANGED <<cfgv, ops, op, exit_code, orig, template, filev, faults, orchv,
                   success, loadv, task, printed>>

RawCreateFails ==
    /\ pc = "raw_create"
    /\ faults < MaxFaults
    /\ faults' = faults + 1
    /\ idx' \in {idx, NoIndex}
    /\ Crash(<<>>)
    /\ UNCHANGED <<cfgv, ops, op, orig, template, filev, orchv, success, loadv,
                   task, printed>>

\* lines 549-578
RawDownload ==
    /\ pc = "raw_download"
    /\ pos' = 0
    /\ success_count' = 0
    /\ error_count' = 0
    /\ failed_docs' = <<>>
    /\ final_count' = 0
    /\ expected_count' = 0
    /\ idx' = [idx EXCEPT !.stale = @ + idx.docs, !.docs = 0]
    /\ pc' = "raw_bulk"
    /\ Logged(<<<<"stream_download", 0>>, <<"load", 0>>>>)
    /\ UNCHANGED <<cfgv, ops, op, exit_code, orig, template, filev, faults, orchv,
                   success, task, printed>>

RawDownloadFails ==
    /\ pc = "raw_download"
    /\ Crash(<<<<"stream_download_failed", 0>>>>)
    /\ UNCHANGED <<cfgv, ops, op, idx, orig, template, filev, faults, orchv,
                   success, loadv, task, printed>>

\* lines 554-590, chunk_size = 10 (line 578)
RawChunk ==
    /\ pc = "raw_bulk"
    /\ StreamChunk(SMALL_CHUNK)
    /\ UNCHANGED <<cfgv, ops, op, pc, exit_code, orig, template, filev, faults,
                   orchv, success, error_count, failed_docs, final_count,
                   expected_count, task, log>>

RawBulkRaises ==
    /\ pc = "raw_bulk"
    /\ \E rest \in BOOLEAN : StreamRaises(SMALL_CHUNK, rest)
    /\ UNCHANGED <<cfgv, ops, op, orig, template, filev, orchv, success, task>>

\* lines 607-631: the report, twenty seconds, the count and the verdict
RawCount ==
    /\ pc = "raw_bulk"
    /\ pos = source.n
    /\ \E c \in Visible(idx) :
          /\ final_count' = c
          /\ expected_count' = INSTRUQT_EXPECTED
          /\ success' = CountMatches(c, INSTRUQT_EXPECTED)
          /\ Logged(<<<<"sleep", 20>>, <<"count", c>>>>)
    /\ pc' = "raw_return"
    /\ UNCHANGED <<cfgv, ops, op, exit_code, idx, orig, template, filev, faults,
                   orchv, pos, success_count, error_count, failed_docs, task, printed>>

RawCountFails ==
    /\ pc = "raw_bulk"
    /\ pos = source.n
    /\ faults < MaxFaults
    /\ faults' = faults + 1
    /\ NoLocals
    /\ Crash(<<>>)
    /\ UNCHANGED <<cfgv, ops, op, idx, orig, template, filev, orchv, success, task,
                   printed>>

\* lines 791-799 (831-836, 878-886): what __main__ does with raw_success
RawReturn ==
    /\ pc = "raw_return"
    /\ IF ~success
       THEN /\ pc' = "done"
            /\ exit_code' = 1
            /\ Logged(<<<<"exit", 1>>>>)
       ELSE /\ UNCHANGED exit_code
            /\ pc' = IF op = "recreate" THEN "main" ELSE "after_template"
            /\ Logged(<<<<"pipeline_complete", 0>>>>)
    /\ UNCHANGED <<cfgv, ops, op, idx, orig, template, filev, faults, orchv,
                   success, loadv, task, printed>>

(***************************************************************************)
(* instruqt_reindex_with_endpoints                                         *)
(***************************************************************************)
Total(ix) == ix.docs + ix.stale

Max2(a, b) == IF a >= b THEN a ELSE b

\* What a completed reindex task can have done (the backend): every
\* document of the source is copied, a document the destination already
\* holds being updated and not created; or the task completes with a
\* failure and one document is missing.  "size" inside "source" is the
\* scroll batch size and does not limit the copy.
ReindexResults(src, dst) ==
    LET full == [created |-> Max2(0, Total(src) - Total(dst)),
                 total |-> Max2(Total(src), Total(dst))]
        short == [created |-> Total(src) - Total(dst) - 1,
                  total |-> Total(src) - 1]
    IN  IF Total(src) > Total(dst) THEN {full, short} ELSE {full}

Copied(dst, r) ==
    [dst EXCEPT !.exists = dst.exists \/ r.total > 0, !.docs = r.total - dst.stale]

\* the copy is started and step 2 follows without waiting for the task
RxStart1NoWait ==
    /\ pc = "rx_step1"
    /\ idx.exists
    /\ task' = [state |-> "running", created |-> 0, polls |-> 0,
                wanted |-> Total(idx), step |-> 1]
    /\ pc' = "rx_step2"
    /\ Logged(<<<<"reindex_start", 1>>>>)
    /\ UNCHANGED <<cfgv, ops, op, exit_code, idx, orig, template, filev, faults,
                   orchv, success, loadv, printed>>

\* lines 639-652: the copy of properties to original-properties is started
RxStart1 ==
    /\ pc = "rx_step1"
    /\ IF idx.exists
       THEN /\ task' = [state |-> "running", created |-> 0, polls |-> 0,
                        wanted |-> Total(idx), step |-> 1]
            /\ pc' = "rx_poll1"
            /\ Logged(<<<<"reindex_start", 1>>>>)
            /\ UNCHANGED success
       ELSE /\ pc' = "rx_return"
            /\ success' = FALSE
            /\ Logged(<<<<"step_failed", 1>>>>)
            /\ UNCHANGED task
    /\ UNCHANGED <<cfgv, ops, op, exit_code, idx, orig, template, filev, faults,
                   orchv, loadv, printed>>

\* the loop gives up after the first poll that finds the task running
RxPollTimeout ==
    /\ pc \in {"rx_poll1", "rx_poll5"}
    /\ task.polls < MaxPolls
    /\ task' = [task EXCEPT !.polls = @ + 1]
    /\ pc' = IF task.polls >= 1 THEN "rx_return" ELSE pc
    /\ success' = IF task.polls >= 1 THEN FALSE ELSE success
    /\ UNCHANGED <<cfgv, ops, op, exit_code, idx, orig, template, filev, faults,
                   orchv, loadv, printed, log>>

\* lines 658-667, 735-744: the task is not completed yet: five seconds,
\* then the next poll
RxPollRunning ==
    /\ pc \in {"rx_poll1", "rx_poll5"}
    /\ task.polls < MaxPolls
    /\ task' = [task EXCEPT !.polls = @ + 1]
    /\ UNCHANGED <<cfgv, ops, op, pc, exit_code, idx, orig, template, filev, faults,
                   orchv, success, loadv, printed, log>>

\* lines 660-663: the task of step 1 is completed; step 2 follows
RxPollCompleted1 ==
    /\ pc = "rx_poll1"
    /\ \E r \in ReindexResults(idx, orig) :
          /\ orig' = Copied(orig, r)
          /\ task' = [task EXCEPT !.state = "completed", !.created = r.created]
    /\ pc' = "rx_step2"
    /\ Logged(<<<<"reindex_done", 1>>>>)
    /\ UNCHANGED <<cfgv, ops, op, exit_code, idx, template, filev, faults, orchv,
                   success, loadv, printed>>

\* the documents are removed, the index is kept
DeleteDocumentsOnly(ix) == [ix EXCEPT !.docs = 0, !.stale = 0]

\* lines 676-680, 698-702: if es.indices.exists(...): es.indices.delete(...),
\* else the deletion is skipped
DeleteIfExists(ix) == IF ix.exists THEN NoIndex ELSE ix

\* lines 673-683, 695-705: properties is deleted if it exists
RxDelete ==
    /\ pc \in {"rx_step2", "rx_step4"}
    /\ idx' = DeleteIfExists(idx)
    /\ pc' = IF pc = "rx_step2" THEN "rx_step3" ELSE "rx_step5"
    /\ Logged(<<<<"rx_delete", IF pc = "rx_step2" THEN 2 ELSE 4>>>>)
    /\ UNCHANGED <<cfgv, ops, op, exit_code, orig, template, filev, faults, orchv,
                   success, loadv, task, printed>>

\* lines 685-693: properties is created with the Instruqt mapping
RxCreate3 ==
    /\ pc = "rx_step3"
    /\ ~idx.exists
    /\ idx' = [exists |-> TRUE, mapping |-> "instruqt", docs |-> 0, stale |-> 0]
    /\ pc' = "rx_step4"
    /\ Logged(<<<<"rx_create", 3>>>>)
    /\ UNCHANGED <<cfgv, ops, op, exit_code, orig, template, filev, faults, orchv,
                   success, loadv, task, printed>>

\* lines 709-729: properties is created again and the copy back is started
RxStart5 ==
    /\ pc = "rx_step5"
    /\ ~idx.exists
    /\ idx' = [exists |-> TRUE, mapping |-> "instruqt", docs |-> 0, stale |-> 0]
    /\ IF orig.exists
       THEN /\ task' = [state |-> "running", created |-> 0, polls |-> 0,
                        wanted |-> Total(orig), step |-> 5]
            /\ pc' = "rx_poll5"
            /\ Logged(<<<<"rx_create", 5>>, <<"reindex_start", 5>>>>)
            /\ UNCHANGED success
       ELSE /\ pc' = "rx_return"
            /\ success' = FALSE
            /\ Logged(<<<<"rx_create", 5>>, <<"step_failed", 5>>>>)
            /\ UNCHANGED task
    /\ UNCHANGED <<cfgv, ops, op, exit_code, orig, template, filev, faults, orchv,
                   loadv, printed>>

\* lines 737-751: the task of step 5 is completed; the operation returns True
RxPollCompleted5 ==
    /\ pc = "rx_poll5"
    /\ \E r \in ReindexResults(orig, idx) :
          /\ idx' = Copied(idx, r)
          /\ task' = [task EXCEPT !.state = "completed", !.created = r.created]
    /\ pc' = "rx_return"
    /\ success' = TRUE
    /\ Logged(<<<<"reindex_done", 5>>>>)
    /\ UNCHANGED <<cfgv, ops, op, exit_code, orig, template, filev, faults, orchv,
                   loadv, printed>>

\* the error of step 1 is printed and the operation goes on with step 2
RxStepFailsGoesOn ==
    /\ pc \in {"rx_step1", "rx_poll1", "rx_step2", "rx_step3", "rx_step4",
               "rx_step5", "rx_poll5"}
    /\ faults < MaxFaults
    /\ faults' = faults + 1
    /\ pc' = IF pc \in {"rx_step1", "rx_poll1"} THEN "rx_step2" ELSE "rx_return"
    /\ success' = FALSE
    /\ Logged(<<<<"step_failed", 0>>>>)
    /\ UNCHANGED <<cfgv, ops, op, exit_code, idx, orig, template, filev, orchv,
                   loadv, task, printed>>

\* lines 669-671, 681-683, 691-693, 703-705, 746-748: a backend call of a
\* step raises; the step prints the error and the operation returns False
RxStepFails ==
    /\ pc \in {"rx_step1", "rx_poll1", "rx_step2", "rx_step3", "rx_step4",
               "rx_step5", "rx_poll5"}
    /\ faults < MaxFaults
    /\ faults' = faults + 1
    /\ pc' = "rx_return"
    /\ success' = FALSE
    /\ Logged(<<<<"step_failed", 0>>>>)
    /\ UNCHANGED <<cfgv, ops, op, exit_code, idx, orig, template, filev, orchv,
                   loadv, task, printed>>

\* lines 859-866: what __main__ does with the value the operation returned
RxReturn ==
    /\ pc = "rx_return"
    /\ IF success
       THEN /\ pc' = "main"
            /\ UNCHANGED exit_code
            /\ Logged(<<<<"reindex_complete", 0>>>>)
       ELSE /\ pc' = "done"
            /\ exit_code' = 1
            /\ Logged(<<<<"exit", 1>>>>)
    /\ UNCHANGED <<cfgv, ops, op, idx, orig, template, filev, faults, orchv,
                   success, loadv, task, printed>>

(***************************************************************************)
(* The specification.                                                      *)
(***************************************************************************)
Next ==
    \/ MainDispatch \/ MainExit \/ CreateSearchTemplate
    \/ OrchDownload \/ OrchDownloadFails \/ OrchCreate \/ OrchCreateFails
    \/ OrchBackoff \/ OrchCollect \/ MainAfterOrch
    \/ MemStart \/ MemChunk \/ MemBulkIndexError \/ MemTransportError
    \/ MemReport \/ MemCount \/ MemRecheck \/ MemCountFails
    \/ RegCreate \/ RegCreateFails \/ RegDownload \/ RegDownloadFails
    \/ RegChunk \/ RegBulkRaises \/ RegCount \/ RegCountFails \/ RegReturn
    \/ RawCreate \/ RawCreateFails \/ RawDownload \/ RawDownloadFails
    \/ RawChunk \/ RawBulkRaises \/ RawCount \/ RawCountFails \/ RawReturn
    \/ RxStart1 \/ RxPollRunning \/ RxPollCompleted1 \/ RxDelete \/ RxCreate3
    \/ RxStart5 \/ RxPollCompleted5 \/ RxStepFails \/ RxReturn

Spec == Init /\ [][Next]_vars

(***************************************************************************)
(* Connection setup of the ingestion script (ingest-properties.py, lines   *)
(* 36-188) and the MCP server (elastic_mcp_server.py).  A credential or an *)
(* identifier of the environment is held as TRUE when it is set to a       *)
(* non-empty value.                                                        *)
(***************************************************************************)
\* every variable of the pipeline
pipev == <<args, max_retries, source, ops, op, pc, exit_code, idx, orig, template,
           file, written, faults, data_lines, all_failed_docs, num_attempts,
           attempt, success, pos, success_count, error_count, failed_docs,
           final_count, expected_count, task, printed, log>>

Envs ==
    [url : BOOLEAN, api_key : BOOLEAN, username : BOOLEAN, password : BOOLEAN,
     use_password_auth : BOOLEAN, jq : {"failed", "empty", "key"},
     inference_id : BOOLEAN, e5_inference_id : BOOLEAN]

ServerInit ==
    /\ args \in {{}, {"instruqt"}}
    /\ max_retries = 0
    /\ source = Stream(0, {}, {}, {})
    /\ ops = <<>>
    /\ op = "none"
    /\ pc = "import"
    /\ exit_code = "running"
    /\ idx = NoIndex
    /\ orig = NoIndex
    /\ template = FALSE
    /\ file = <<>>
    /\ written = FALSE
    /\ faults = 0
    /\ data_lines = Stream(0, {}, {}, {})
    /\ all_failed_docs = <<>>
    /\ num_attempts = 0
    /\ attempt = 0
    /\ success = FALSE
    /\ pos = 0
    /\ success_count = 0
    /\ error_count = 0
    /\ failed_docs = <<>>
    /\ final_count = 0
    /\ expected_count = 0
    /\ task = [state |-> "none", created |-> 0, polls |-> 0, wanted |-> 0, step |-> 0]
    /\ printed = {}
    /\ log = <<>>
    /\ env \in Envs
    /\ srv = [prog |-> "none", pc |-> "start", client |-> NoClient, calls |-> 0,
              health |-> <<>>]
    /\ reply = NoReply

\* ingest-properties.py lines 41-70: the API key and the authentication
\* mode the script goes on with.  In Instruqt mode the key is what jq
\* printed and password authentication is off; "rejected" stands for the
\* ValueError of lines 56, 62, 64.
IngestKey(a, e) ==
    IF "instruqt" \in a THEN e.jq = "key" ELSE e.api_key

IngestPasswordAuth(a, e) ==
    IF "instruqt" \in a THEN FALSE ELSE e.use_password_auth

\* ingest-properties.py lines 147-185: the client the script builds, or
\* NoClient when a ValueError is raised
IngestClient(a, e) ==
    IF "instruqt" \in a /\ e.jq # "key" THEN NoClient
    ELSE IF ~e.url THEN NoClient
    ELSE IF IngestPasswordAuth(a, e)
    THEN IF ~e.username THEN NoClient
         ELSE IF "instruqt" \notin a /\ ~e.password THEN NoClient
         ELSE [api_key |-> FALSE, basic_auth |-> TRUE]
    ELSE IF ~IngestKey(a, e) THEN NoClient
         ELSE [api_key |-> TRUE, basic_auth |-> FALSE]

\* ingest-properties.py lines 36-188: the connection setup at import time;
\* es.info() is the first backend call
IngestConnect ==
    /\ srv.pc = "start"
    /\ LET c == IngestClient(args, env)
       IN  srv' = IF c = NoClient
                  THEN [srv EXCEPT !.prog = "ingest", !.pc = "rejected"]
                  ELSE [prog |-> "ingest", pc |-> "connected", client |-> c,
                        calls |-> srv.calls + 1, health |-> <<>>]
    /\ UNCHANGED <<pipev, env, reply>>

\* elastic_mcp_server.py lines 55-62: ElasticsearchConfig.__init__ accepts
\* the configuration
ConfigValid(e) ==
    /\ e.url
    /\ ~(e.username /\ ~e.password)
    /\ ~(e.password /\ ~e.username)

\* elastic_mcp_server.py lines 444-454, 55-72: main builds the configuration
ConfigInit ==
    /\ srv.pc = "start"
    /\ srv' = [srv EXCEPT !.prog = "server",
                          !.pc = IF ConfigValid(env) THEN "config" ELSE "rejected"]
    /\ UNCHANGED <<pipev, env, reply>>

\* A server that passes every credential it is given to the client.
ServerClientBoth(e) ==
    IF e.api_key \/ (e.username /\ e.password)
    THEN [api_key |-> e.api_key, basic_auth |-> e.username /\ e.password]
    ELSE NoClient

\* elastic_mcp_server.py lines 78-97: the client create_elasticsearch_mcp_server
\* builds, or NoClient when it raises ValueError
ServerClient(e) ==
    IF e.api_key THEN [api_key |-> TRUE, basic_auth |-> FALSE]
    ELSE IF e.username /\ e.password THEN [api_key |-> FALSE, basic_auth |-> TRUE]
    ELSE NoClient

\* elastic_mcp_server.py lines 74-107, 440: the server is created
CreateServer ==
    /\ srv.pc = "config"
    /\ LET c == ServerClient(env)
       IN  srv' = IF c = NoClient
                  THEN [srv EXCEPT !.pc = "rejected"]
                  ELSE [srv EXCEPT !.pc = "serving", !.client = c]
    /\ UNCHANGED <<pipev, env, reply>>

\* Number of inference endpoints that have an identifier configured.
Configured(e) ==
    (IF e.inference_id THEN 1 ELSE 0) + (IF e.e5_inference_id THEN 1 ELSE 0)

\* one round in which a failed check of ELSER ends the round
CycleChecksAbort(e, elser_ok, e5_ok) ==
    IF e.inference_id /\ ~elser_ok
    THEN <<[endpoint |-> "elser", ok |-> FALSE]>>
    ELSE (IF e.inference_id THEN <<[endpoint |-> "elser", ok |-> elser_ok]>> ELSE <<>>)
         \o (IF e.e5_inference_id THEN <<[endpoint |-> "e5", ok |-> e5_ok]>> ELSE <<>>)

\* elastic_mcp_server.py lines 113-137: the checks of one round of the
\* background task, in order: each configured endpoint is called inside a
\* try of its own and the outcome is logged
CycleChecks(e, elser_ok, e5_ok) ==
    (IF e.inference_id THEN <<[endpoint |-> "elser", ok |-> elser_ok]>> ELSE <<>>)
    \o (IF e.e5_inference_id THEN <<[endpoint |-> "e5", ok |-> e5_ok]>> ELSE <<>>)

\* elastic_mcp_server.py lines 110-144: one round of the background task:
\* the checks, then asyncio.sleep(300); srv.health is what the rounds have
\* logged
CheckInferenceEndpoints ==
    /\ srv.pc = "serving"
    /\ Len(srv.health) < MaxCalls
    /\ \E elser_ok \in BOOLEAN, e5_ok \in BOOLEAN :
          LET checks == CycleChecks(env, elser_ok, e5_ok)
          IN  srv' = [srv EXCEPT !.calls = @ + Len(checks),
                                 !.health = Append(@, checks)]
    /\ UNCHANGED <<pipev, env, reply>>

\* elastic_mcp_server.py lines 152-181: the line appended to results for an
\* endpoint: "ready" for the line with the check mark, "failed" for the
\* line with the cross, "unconfigured" for the line with the warning sign
WakeResult(configured, ok) ==
    IF ~configured THEN "unconfigured" ELSE IF ok THEN "ready" ELSE "failed"

\* all_ready when an endpoint without an identifier counts as not woken.
AllReadyStrict(results) ==
    \A i \in 1..Len(results) : results[i] = "ready"

\* elastic_mcp_server.py line 184: all_ready
AllReady(results) ==
    \A i \in 1..Len(results) :
        (results[i] = "ready" \/ results[i] # "unconfigured") => results[i] = "ready"

\* elastic_mcp_server.py lines 186-203: the value wake_inference_endpoints returns
WakeReply(e, results) ==
    [tool |-> "wake",
     results |-> results,
     message |-> IF AllReady(results) THEN "Endpoints Awakened"
                 ELSE "Some endpoints failed to awaken",
     status |-> IF AllReady(results) THEN "awakened" ELSE "partial_failure",
     elser_status |-> IF e.inference_id /\ results[1] = "ready"
                      THEN "ready" ELSE "not_available",
     e5_status |-> IF e.e5_inference_id /\ results[2] = "ready"
                   THEN "ready" ELSE "not_available"]

\* elastic_mcp_server.py lines 146-203: the tool wake_inference_endpoints;
\* each inference call of a configured endpoint succeeds or raises
wake_inference_endpoints ==
    /\ srv.pc = "serving"
    /\ srv.calls < MaxCalls
    /\ \E elser_ok \in BOOLEAN, e5_ok \in BOOLEAN :
          reply' = WakeReply(env, <<WakeResult(env.inference_id, elser_ok),
                                    WakeResult(env.e5_inference_id, e5_ok)>>)
    /\ srv' = [srv EXCEPT !.calls = @ + Configured(env)]
    /\ UNCHANGED <<pipev, env>>

\* Values of the arguments of search_template and of the template parameters.
None == [kind |-> "none", n |-> 0]
Num(v) == [kind |-> "num", n |-> v]
Str == [kind |-> "str", n |-> 0]

\* elastic_mcp_server.py line 365
DEFAULT_DISTANCE == 25

\* elastic_mcp_server.py line 372: f"{distance}mi"
Miles(d) == [kind |-> "mi", n |-> d.n]

\* elastic_mcp_server.py lines 364-366: the distance after the default
DistanceOrDefault(latitude, longitude, distance) ==
    IF latitude # None /\ longitude # None /\ distance = None
    THEN Num(DEFAULT_DISTANCE) ELSE distance

\* elastic_mcp_server.py lines 368-384: the parameters sent to the template;
\* the optional parameters not shown are treated as tax is
TemplateParams(latitude, longitude, distance, tax) ==
    LET d == DistanceOrDefault(latitude, longitude, distance)
        raw == [query |-> Str,
                latitude |-> latitude,
                longitude |-> longitude,
                distance |-> IF d # None THEN Miles(d) ELSE None,
                tax |-> tax]
    IN  [k \in {k \in DOMAIN raw : raw[k] # None} |-> raw[k]]

\* elastic_mcp_server.py lines 339-438: the tool search_template; the
\* backend call returns or raises
search_template ==
    /\ srv.pc = "serving"
    /\ srv.calls < MaxCalls
    /\ \E latitude \in {None, Num(40)}, longitude \in {None, Num(74)},
          distance \in {None, Num(0), Num(10)}, tax \in {None, Num(5)},
          ok \in BOOLEAN :
          reply' = [tool |-> "search",
                    input |-> [latitude |-> latitude, longitude |-> longitude,
                               distance |-> distance, tax |-> tax],
                    params |-> TemplateParams(latitude, longitude, distance, tax),
                    error |-> ~ok]
    /\ srv' = [srv EXCEPT !.calls = @ + 1]
    /\ UNCHANGED <<pipev, env>>

ServerNext ==
    \/ IngestConnect \/ ConfigInit \/ CreateServer \/ CheckInferenceEndpoints
    \/ wake_inference_endpoints \/ search_template

ServerSpec == ServerInit /\ [][ServerNext]_vars

(***************************************************************************)
(* The reindex operation on its own, up to its return, with the fairness   *)
(* of a sequential program: the script goes on while it has a next step.   *)
(* The backend reports a task completed after MaxPolls polls at the        *)
(* latest.                                                                 *)
(***************************************************************************)
RxInit == Init /\ Head(Operations(args)) = "reindex"

RxNext ==
    \/ MainDispatch
    \/ RxStart1 \/ RxPollRunning \/ RxPollCompleted1 \/ RxDelete \/ RxCreate3
    \/ RxStart5 \/ RxPollCompleted5 \/ RxStepFails

ReindexSpec == RxInit /\ [][RxNext]_vars /\ WF_vars(RxNext)

(***************************************************************************)
(* Properties.                                                             *)
(***************************************************************************)
Events(name) == {i \in 1..Len(log) : log[i][1] = name}

Count(name) == Cardinality(Events(name))

\* the place of the last event called name before place i (0: there is none)
LastBefore(name, i) ==
    LET before == {j \in Events(name) : j < i}
    IN  IF before = {} THEN 0 ELSE CHOOSE j \in before : \A k \in before : k <= j

LastEvent == IF log = <<>> THEN <<"none", 0>> ELSE log[Len(log)]

\* lines 79-81, 96-103: the document count declared for the variant at a URL
DeclaredCount(url) ==
    IF url = "PROPERTIES_500_URL" THEN TINY_COUNT
    ELSE IF url = "PROPERTIES_5000_URL" THEN SMALL_COUNT
    ELSE FULL_COUNT

\* control locations of an attempt of the retry orchestrator
AttemptPcs == {"orch_create", "mem_start", "mem_bulk", "mem_count", "mem_recheck",
               "orch_collect", "orch_backoff"}

\* control locations from the creation of the index to the end of a load
LoadPcs == {"mem_start", "mem_bulk", "mem_count", "mem_recheck", "orch_collect",
            "reg_template", "reg_download", "reg_bulk", "reg_return",
            "raw_download", "raw_bulk", "raw_return"}

\* C1: whenever the retry orchestrator reports success, the last count read
\* from the index in the successful attempt equals the document count
\* declared for the dataset variant in use; no attempt is reported
\* successful with another count.
C1_SuccessHasDeclaredCount ==
    /\ \A i \in Events("success") :
          LET j == LastBefore("count", i)
          IN  /\ j > LastBefore("load", i)
              /\ LastBefore("load", i) > 0
              /\ log[j][2] = DeclaredCount(DatasetUrl(args))
    /\ (pc = "orch_return" /\ success) => final_count = DeclaredCount(DatasetUrl(args))

C1_Witness ==
    /\ pc = "orch_return"
    /\ success
    /\ attempt > 1
    /\ final_count = TINY_COUNT

\* C2 (as claimed): in every operating mode a load whose verified count
\* differs from the expected count never ends in the pipeline being
\* announced complete.
C2_PartialLoadNeverCompletes ==
    LastEvent[1] = "pipeline_complete" => final_count = expected_count

\* C3: when every attempt fails the orchestrator makes exactly num_attempts
\* attempts, every load preceded by the recreation of the index in the same
\* attempt, and then reports failure; never one attempt more or fewer.
\* max_retries = 0 gives exactly one attempt.
C3_ExactlyKAttempts ==
    /\ attempt <= num_attempts
    /\ attempt >= 1 => num_attempts = (IF max_retries = 0 THEN 1 ELSE max_retries + 1)
    /\ \A i \in Events("load") :
          log[i][2] >= 1 => i > 1 /\ log[i - 1] = <<"create", log[i][2]>>
    /\ \A i \in Events("exhausted") :
          /\ log[i][2] = num_attempts
          /\ {log[j][2] : j \in Events("attempt_failed")} = 1..num_attempts
          /\ Count("attempt_failed") = num_attempts
          /\ Count("success") = 0
          /\ \/ pc = "orch_return" /\ ~success
             \/ pc = "done" /\ exit_code = 1

C3_Witness ==
    /\ pc = "orch_return"
    /\ ~success
    /\ Count("exhausted") = 1
    /\ Count("load") = 3
    /\ Count("create") = 3

\* C4: create_properties_index leaves the index existing and empty whatever
\* it was before, every load starts after the index was recreated, and the
\* index never holds a document of an earlier run or attempt while a load
\* is under way.
C4_FreshDestination ==
    /\ pc \in {"mem_start", "reg_template", "reg_download", "raw_download"}
          => idx.exists /\ Total(idx) = 0
    /\ pc \in LoadPcs => idx.stale = 0
    /\ \A i \in Events("load") : LastBefore("create", i) > LastBefore("load", i)

C4_Witness ==
    /\ pc = "mem_bulk"
    /\ attempt = 2
    /\ idx.docs > 0
    /\ idx.stale = 0
    /\ LastBefore("count", Len(log)) > 0

\* C5 (as claimed): in the streaming loader and in the in-memory loader,
\* every line that fails to decode has exactly one failure record, tagged
\* with the line's number in the source stream, when the load is over.
C5_DecodeFailureRecorded ==
    (pc \in {"reg_return", "raw_return"} \/ (pc = "orch_collect" /\ LastEvent[1] = "count"))
        => \A i \in source.bad :
              Cardinality({k \in 1..Len(failed_docs) : failed_docs[k].line_number = i}) = 1

\* C6: when all attempts have failed the run ends with exit status 1, and
\* by then every aggregated failure record has been printed and, when the
\* file is configured and there are records, the file holds them all.
C6_ExhaustionAborts ==
    Count("exhausted") > 0 =>
        /\ pc \in {"orch_return", "done"}
        /\ ~success
        /\ pc = "done" => exit_code = 1
        /\ Range(all_failed_docs) \subseteq printed
        /\ (PersistFlag /\ all_failed_docs # <<>>) => (written /\ file = all_failed_docs)

C6_Witness ==
    /\ Count("exhausted") > 0
    /\ pc = "done"
    /\ written
    /\ Len(file) >= 2
    /\ num_attempts >= 2

\* C7: a failed download is fatal and is not retried: the error leaves the
\* script, no attempt is started and the index is left as it was; an
\* orchestrated run downloads once, before its first attempt.
C7_DownloadFailureIsFatal ==
    /\ [](Count("download_failed") > 0 =>
            /\ pc = "done"
            /\ exit_code = 1
            /\ attempt = 0
            /\ Count("download_failed") = 1
            /\ Count("download") + Count("create") + Count("load") = 0)
    /\ [](attempt >= 1 =>
            /\ Count("download") = 1
            /\ \A i \in Events("create") \cup Events("load") : Events("download") = {1} \/ i > Min(Events("download")))
    /\ [][(pc = "orch_download" /\ pc' = "done") => idx' = idx]_vars

C7_Witness ==
    /\ Count("download_failed") = 1
    /\ pc = "done"
    /\ idx = PriorIndex

\* C8: the line buffer is filled once, before the first attempt, with the
\* non-blank lines of the source; no attempt changes it or downloads the
\* source again, and every load reads it from its first line.
C8_BufferReused ==
    /\ [](attempt >= 1 => data_lines = FilterBlank(source))
    /\ [][(pc \in AttemptPcs) => (pc' # "orch_download" /\ data_lines' = data_lines)]_vars
    /\ [][(pc = "mem_start") => (pos' = 0)]_vars

C8_Witness ==
    /\ attempt = 2
    /\ pc = "mem_bulk"
    /\ pos > 0
    /\ pos < data_lines.n

\* C9 (as claimed): a transform task that completed with a wrong count of
\* created documents is followed by a retry or by a hard failure; the
\* runner never goes on to the next step or returns success after it.
C9_WrongCountRetriedOrFails ==
    (task.state = "completed" /\ task.created # task.wanted) =>
        /\ pc \notin {"rx_step2", "rx_step3", "rx_step4", "rx_step5", "rx_poll5"}
        /\ ~(pc = "rx_return" /\ success)

\* C10 (as claimed): the transform is reported successful only if the
\* number of documents the last task created equals the expected number.
C10_SuccessOnlyOnMatch ==
    LastEvent[1] = "reindex_complete" => task.created = task.wanted

\* C11 (as claimed): every failure record of a document the backend
\* rejected carries the number of the source line the document was decoded
\* from; it is never left unknown or given another line.
C11_RejectionCarriesLine ==
    \A k \in 1..Len(failed_docs) :
        failed_docs[k].error = "index error"
            => failed_docs[k].line_number = SrcLine(source, failed_docs[k].doc)

\* C12 (as claimed): when a load of the in-memory loader is over, every
\* batch of the buffer was submitted and every accepted document was
\* counted, whether or not a batch of the load failed.
C12_OtherBatchesCounted ==
    pc = "orch_collect"
        => /\ pos = data_lines.n
           /\ success_count = NumAccepted(data_lines, 0, data_lines.n)

\* C13: when the first count the verifier of the in-memory loader reads is
\* under the expected count but not under the close floor (480 of 500), the
\* attempt is not failed: the verifier waits and reads the count again; when
\* the second count is the expected count the attempt is reported as success.
C13_CloseCountRechecked ==
    /\ [][(/\ pc = "mem_count"
           /\ final_count' >= CLOSE_FLOOR
           /\ final_count' < INSTRUQT_EXPECTED)
          => (/\ pc' = "mem_recheck"
              /\ log' = log \o <<<<"count", final_count'>>>>
              /\ attempt' = attempt)]_vars
    /\ [][(pc = "mem_recheck" /\ final_count' = INSTRUQT_EXPECTED)
          => (pc' = "orch_collect" /\ success'
              /\ log' = log \o <<<<"sleep", 20>>, <<"count", final_count'>>>>)]_vars
    /\ [][(pc = "orch_collect" /\ success)
          => (pc' = "orch_return" /\ log'[Len(log')] = <<"success", attempt>>)]_vars

C13_Witness ==
    /\ pc = "orch_return"
    /\ success
    /\ \E i \in 1..(Len(log) - 3) :
          /\ log[i] = <<"count", TINY_COUNT - LagNear>>
          /\ log[i + 1] = <<"sleep", 20>>
          /\ log[i + 2] = <<"count", TINY_COUNT>>
          /\ log[i + 3][1] = "success"

\* C14 (as claimed): in the run __main__ starts (max_retries left at 0) on
\* the 500-line dataset whose line 237 does not decode, the failed
\* verification (499 of 500) is followed by a retry that loads the buffer
\* again.
C14_MalformedLineTriggersReload ==
    (/\ max_retries = 0
     /\ source = Stream(TINY_COUNT, {237}, {}, {})
     /\ faults = 0
     /\ success_count = TINY_COUNT - 1
     /\ final_count = TINY_COUNT - 1
     /\ pc = "orch_return")
        => Count("load") >= 2

\* C15 (as claimed): when the orchestrator ends, its aggregated list holds
\* every failure record an attempt of the run made (the in-memory loader
\* prints every record as it makes it), also those of an attempt that ended
\* by an exception.
C15_NoRecordLost ==
    pc = "orch_return" => printed \subseteq Range(all_failed_docs)

\* C16 (as claimed): the failure report file is written only when the
\* persistence flag is set, and every write is made in the final attempt or
\* together with the success of its attempt; an attempt that failed and is
\* followed by another one never writes the file.
C16_NoIntermediateWrite ==
    \A i \in Events("file_write") :
        /\ PersistFlag
        /\ \/ log[i][2] = num_attempts
           \/ i < Len(log) /\ log[i + 1] = <<"success", log[i][2]>>

\* C17 (as claimed): when the persistence flag is set and an attempt of the
\* run made failure records, then at the end of the orchestrator, failed or
\* successful, the file has been written and holds the records of all the
\* attempts.
C17_FileHoldsAllRecords ==
    (pc = "orch_return" /\ PersistFlag /\ printed # {})
        => (written /\ Range(file) = printed)

\* C18 (as claimed): a document the backend rejects never makes a loader
\* raise: as long as no request has failed at transport level, no loader,
\* streaming or in-memory, has let an exception of the bulk helper through.
C18_RejectionNeverRaises ==
    faults = 0 => Count("bulk_raised") = 0

\* C19 (as claimed): a run deletes a collection at most once, only after
\* both reindex tasks of the transform have completed, and never in a run
\* whose transform failed.
C19_CleanupOnceAfterSuccess ==
    /\ Count("rx_delete") <= 1
    /\ \A i \in Events("rx_delete") :
          Cardinality({j \in Events("reindex_done") : j < i}) = 2
    /\ (pc = "rx_return" /\ ~success) => Count("rx_delete") = 0

\* C20: the deletion step deletes the index if it is present and leaves
\* the state as it is, without an error, if the index is absent; applied a
\* second time it changes nothing.  Steps 2 and 4 of the reindex operation
\* are this step and touch nothing else.
C20_DeleteIdempotent ==
    /\ [](LET once == DeleteIfExists(idx)
          IN  /\ ~once.exists
              /\ ~idx.exists => once = idx
              /\ DeleteIfExists(once) = once)
    /\ [][(pc \in {"rx_step2", "rx_step4"} /\ faults' = faults)
          => (/\ idx' = DeleteIfExists(idx)
              /\ DeleteIfExists(idx') = idx'
              /\ orig' = orig
              /\ pc' \in {"rx_step3", "rx_step5"}
              /\ Count("step_failed")' = Count("step_failed"))]_vars

C20_Witness ==
    /\ LastEvent = <<"rx_delete", 4>>
    /\ ~idx.exists
    /\ orig.exists
    /\ Count("rx_delete") = 2

\* C21 (as claimed): after a successful run of the Instruqt reindex
\* operation the index properties exists with the Instruqt mapping and
\* holds at most the 10 documents the size of the request names.
C21_AtMostTenDocuments ==
    LastEvent[1] = "reindex_complete"
        => /\ idx.exists
           /\ idx.mapping = "instruqt"
           /\ Total(idx) <= REINDEX_SIZE


C23_AwakenedIffBothWoken ==
    reply.tool = "wake" =>
        LET both == reply.results = <<"ready", "ready">>
        IN  /\ (reply.message = "Endpoints Awakened" /\ reply.status = "awakened")
                   <=> both
            /\ both => (reply.elser_status = "ready" /\ reply.e5_status = "ready")
            /\ ~both => /\ reply.message = "Some endpoints failed to awaken"
                        /\ reply.status = "partial_failure"

\* C23 (amended): wake_inference_endpoints answers 'Endpoints Awakened' with
\* status 'awakened' exactly when no endpoint that has an identifier
\* configured failed to wake, an endpoint without identifier being skipped;
\* otherwise it answers 'Some endpoints failed to awaken' with status
\* 'partial_failure'; the status of an endpoint is 'ready' exactly when it
\* is configured and was woken, and 'not_available' otherwise.
C23_AwakenedIffNoneFailed ==
    reply.tool = "wake" =>
        LET failed == \E i \in 1..2 : reply.results[i] = "failed"
        IN  /\ ~failed => /\ reply.message = "Endpoints Awakened"
                          /\ reply.status = "awakened"
            /\ failed => /\ reply.message = "Some endpoints failed to awaken"
                         /\ reply.status = "partial_failure"
            /\ reply.elser_status =
                   IF reply.results[1] = "ready" THEN "ready" ELSE "not_available"
            /\ reply.e5_status =
                   IF reply.results[2] = "ready" THEN "ready" ELSE "not_available"
            /\ (reply.results[1] = "unconfigured") <=> ~env.inference_id
            /\ (reply.results[2] = "unconfigured") <=> ~env.e5_inference_id

\* Only the E5 endpoint is configured, it wakes, and the answer is
\* 'Endpoints Awakened' while the ELSER status is 'not_available'.
C23_Witness ==
    /\ reply.tool = "wake"
    /\ reply.results = <<"unconfigured", "ready">>
    /\ reply.message = "Endpoints Awakened"
    /\ reply.status = "awakened"
    /\ reply.elser_status = "not_available"
    /\ reply.e5_status = "ready"

\* C24: search_template applies the default distance of 25 miles whenever
\* no distance is provided, sends the distance as '<n>mi', and never sends
\* a parameter whose value is None.
C24_DefaultDistanceAlways ==
    reply.tool = "search" =>
        /\ "distance" \in DOMAIN reply.params
        /\ reply.params.distance =
               IF reply.input.distance = None
               THEN [kind |-> "mi", n |-> DEFAULT_DISTANCE]
               ELSE [kind |-> "mi", n |-> reply.input.distance.n]
        /\ \A k \in DOMAIN reply.params : reply.params[k] # None


\* C25: the retry orchestrator stops at the first attempt that succeeds:
\* after a success there is no further drop-and-create, load or backoff;
\* the outcomes Succeeded and Exhausted are terminal and exclude each
\* other; and the attempt number only ever changes by growing by one.
C25_StopsAtFirstSuccess ==
    /\ [](\A i \in Events("success") \cup Events("exhausted") :
             \A j \in (i + 1)..Len(log) :
                 ~(/\ log[j][1] \in {"create", "load", "backoff", "attempt_failed",
                                      "success", "exhausted"}
                   /\ log[j][2] >= 1))
    /\ [](pc = "orch_return" => /\ Count("success") = (IF success THEN 1 ELSE 0)
                                /\ Count("exhausted") = (IF success THEN 0 ELSE 1))
    /\ [][(pc = "orch_return") => (pc' \notin AttemptPcs /\ attempt' = attempt)]_vars
    /\ [][(attempt' = attempt) \/ (attempt' = attempt + 1)]_vars
    /\ [][(pc \in AttemptPcs /\ attempt' # attempt) => (pc = "orch_backoff")]_vars

\* The second of three allowed attempts succeeded and the program has ended
\* without a third.
C25_Witness ==
    /\ num_attempts = 3
    /\ attempt = 2
    /\ success
    /\ pc = "done"
    /\ Count("attempt_failed") = 1
    /\ Count("success") = 1
    /\ Count("create") = 2


\* C26: between an attempt n below the maximum that failed, by a wrong count
\* or by an exception, and the start of attempt n + 1 there is exactly one
\* backoff wait; there is no backoff wait after the final attempt or after
\* an attempt that succeeded.  (Attempt n + 1 starts with the creation of
\* the index, or fails in it.)
C26_OneBackoffBetweenAttempts ==
    /\ \A i \in Events("attempt_failed") :
           IF log[i][2] < num_attempts
           THEN /\ i < Len(log) => log[i + 1] = <<"backoff", log[i][2]>>
                /\ i + 1 < Len(log) =>
                       /\ log[i + 2][1] \in {"create", "attempt_failed"}
                       /\ log[i + 2][2] = log[i][2] + 1
           ELSE \A j \in Events("backoff") : j < i
    /\ pc = "orch_backoff" <=>
           (LastEvent[1] = "attempt_failed" /\ LastEvent[2] < num_attempts)
    /\ \A j \in Events("backoff") :
           /\ j > 1
           /\ log[j - 1] = <<"attempt_failed", log[j][2]>>
           /\ log[j][2] < num_attempts
    /\ \A i \in Events("success") : \A j \in Events("backoff") : j < i
    /\ \A i \in Events("create") :
           log[i][2] >= 2 => log[i - 1] = <<"backoff", log[i][2] - 1>>

\* Three attempts failed, the first by an exception or a wrong count, with
\* a backoff after the first and after the second and none after the third.
C26_Witness ==
    /\ pc = "done"
    /\ num_attempts = 3
    /\ Count("exhausted") = 1
    /\ Count("attempt_failed") = 3
    /\ Count("backoff") = 2
    /\ Count("crash") = 0


\* C27: within one attempt the count verifier of the in-memory loader waits
\* and reads the count again at most once, and only when the first count is
\* under the expected count and at least the expected count less 100; a
\* first count equal to, above, or more than 100 under the expected count
\* is not read again; the verdict is that of the last count read.
C27_RecheckAtMostOnce ==
    /\ [][(pc = "mem_count" /\ pc' = "mem_recheck")
          => (/\ final_count' < expected_count'
              /\ final_count' >= expected_count' - 100
              /\ log' = log \o <<<<"count", final_count'>>>>)]_vars
    /\ [][(/\ pc = "mem_count"
           /\ \/ final_count' >= expected_count'
              \/ final_count' < expected_count' - 100)
          => (pc' # "mem_recheck")]_vars
    /\ [][(pc = "mem_recheck")
          => (/\ pc' # "mem_recheck"
              /\ pc' # "mem_count"
              /\ pc' = "orch_collect"
                     => log' = log \o <<<<"sleep", 20>>, <<"count", final_count'>>>>)]_vars
    /\ [][(pc \in {"mem_count", "mem_recheck"} /\ pc' = "orch_collect")
          => (/\ success' = (final_count' = expected_count')
              /\ log'[Len(log')] = <<"count", final_count'>>)]_vars
    /\ [][(pc = "orch_collect") => (pc' \notin {"mem_count", "mem_recheck"})]_vars

\* A first count of 480 was read again, the second count is still under 500,
\* and the attempt is returned as failed without a third reading.
C27_Witness ==
    /\ pc = "orch_collect"
    /\ ~success
    /\ final_count < expected_count
    /\ Len(log) >= 3
    /\ log[Len(log) - 2] = <<"count", TINY_COUNT - LagNear>>
    /\ log[Len(log) - 1] = <<"sleep", 20>>
    /\ log[Len(log)] = <<"count", final_count>>


\* C28: with --instruqt or --ingest-raw-500-dataset the document count of
\* the destination is read only after the whole bulk submission of the
\* attempt has finished and a settle delay has elapsed; without them it is
\* read right after the bulk submission, with no settle delay.
C28_CountAfterSettleDelay ==
    /\ [](\A i \in Events("count") :
              /\ i > 1
              /\ IF Constrained
                 THEN log[i - 1] \in {<<"sleep", 30>>, <<"sleep", 20>>}
                 ELSE log[i - 1][1] # "sleep")
    /\ [](~Constrained => Count("sleep") = 0)
    /\ [][(Count("count")' > Count("count"))
          => (/\ pc \in {"mem_count", "mem_recheck", "reg_bulk", "raw_bulk"}
              /\ pos = (IF pc \in {"mem_count", "mem_recheck"} THEN data_lines.n
                        ELSE source.n)
              /\ pos' = pos
              /\ idx' = idx)]_vars
    /\ [][(~Constrained /\ Count("count")' > Count("count"))
          => (pc = "reg_bulk" /\ log' = log \o <<<<"count", final_count'>>>>)]_vars

\* An Instruqt load submitted every line, waited 30 seconds and then read
\* the count.
C28_Witness ==
    /\ "instruqt" \in args
    /\ pc = "orch_collect"
    /\ pos = data_lines.n
    /\ pos > 0
    /\ Len(log) >= 2
    /\ log[Len(log) - 1] = <<"sleep", 30>>
    /\ log[Len(log)] = <<"count", final_count>>


C30_RejectionRecoveredLocally ==
    LET rejections == {k \in 1..Len(failed_docs) : failed_docs[k].error = "index error"}
        lines == IF pc = "orch_collect" THEN data_lines ELSE source
    IN  /\ error_count = Cardinality(rejections)
        /\ (faults = 0 /\ pc \in {"orch_collect", "reg_return", "raw_return"})
               => /\ pos = lines.n
                  /\ Cardinality(rejections) = Cardinality(lines.rej)
                  /\ success_count = NumAccepted(lines, 0, lines.n)
                  /\ LastEvent[1] = "count"


\* C31 (as claimed): every decoded document of a load gets exactly one
\* outcome: when the bulk submission of the load is over, success_count +
\* error_count is the number of decoded documents, and the number of failure
\* records is error_count plus the number of decode failures recorded.
C31_OneOutcomePerDocument ==
    LET lines == IF pc \in {"mem_count", "orch_collect"} THEN data_lines ELSE source
        decode == {k \in 1..Len(failed_docs) :
                       failed_docs[k].error = "JSON decode error"}
    IN  (faults = 0 /\ pc \in {"mem_count", "orch_collect", "reg_return", "raw_return"})
            => /\ success_count + error_count = NumDecoded(lines, 0, lines.n)
               /\ Len(failed_docs) = error_count + Cardinality(decode)


\* C32: no batch submitted to the destination holds more documents than the
\* batch size of the mode, which is 10 with --instruqt or
\* --ingest-raw-500-dataset and 500 otherwise; the batches of a load are
\* consecutive stretches of the lines, each full but possibly the last, so
\* that every decoded document is in exactly one batch of the load.
C32_BatchWithinSize ==
    /\ [][(pc' = pc /\ pc \in {"mem_bulk", "reg_bulk", "raw_bulk"} /\ pos' # pos)
          => LET lines == IF pc = "mem_bulk" THEN data_lines ELSE source
                 size == IF Constrained THEN SMALL_CHUNK ELSE LARGE_CHUNK
                 batch == Decoded(lines, pos, pos')
             IN  /\ pos' > pos
                 /\ Cardinality(batch) <= size
                 /\ Cardinality(batch) < size => pos' = lines.n
                 /\ idx'.docs = idx.docs + Cardinality(batch)
                 /\ success_count' = success_count + Cardinality(batch)]_vars
    /\ [](pc \in {"mem_count", "reg_return", "raw_return"}
              => pos = (IF pc = "mem_count" THEN data_lines.n ELSE source.n))

\* Two full batches of 10 of a 500-line Instruqt load have been submitted.
C32_Witness ==
    /\ "instruqt" \in args
    /\ pc = "mem_bulk"
    /\ data_lines.n = TINY_COUNT
    /\ pos = 2 * SMALL_CHUNK
    /\ success_count = 2 * SMALL_CHUNK


\* C33 (as stated): the polling loop of a reindex task is left only when
\* the backend reports the task completed; a poll that finds the task
\* running waits one interval and polls again; and a loop that is entered
\* is left once the task completes.
C33_LeavesOnlyWhenCompleted ==
    /\ [][(pc \in {"rx_poll1", "rx_poll5"} /\ pc' # pc)
          => (task'.state = "completed")]_vars
    /\ [][(pc \in {"rx_poll1", "rx_poll5"} /\ pc' = pc)
          => (task' = [task EXCEPT !.polls = @ + 1])]_vars
    /\ (pc = "rx_poll1") ~> (pc = "rx_step2")

\* C33 (amended): the polling loop of a reindex task is left only when the
\* backend reports the task completed, and then the next step follows, or
\* when a status check raises, and then the operation returns failure; a
\* poll that finds the task running waits one interval and polls again,
\* changing nothing else; there is no timeout: as long as the task is
\* reported running the next poll is taken; and a loop that is entered is
\* left once the task completes or a check raises.
C33_PollUntilCompletedOrError ==
    /\ [][(pc \in {"rx_poll1", "rx_poll5"} /\ pc' # pc)
          => \/ /\ task'.state = "completed"
                /\ pc' = (IF pc = "rx_poll1" THEN "rx_step2" ELSE "rx_return")
                /\ pc = "rx_poll5" => success'
                /\ faults' = faults
             \/ /\ pc' = "rx_return"
                /\ ~success'
                /\ faults' = faults + 1
                /\ task' = task]_vars
    /\ [][(pc \in {"rx_poll1", "rx_poll5"} /\ pc' = pc)
          => (/\ task' = [task EXCEPT !.polls = @ + 1]
              /\ idx' = idx /\ orig' = orig /\ log' = log)]_vars
    /\ []((pc \in {"rx_poll1", "rx_poll5"} /\ task.polls < MaxPolls)
              => ENABLED RxPollRunning)
    /\ (pc \in {"rx_poll1", "rx_poll5"}) ~> (pc \in {"rx_step2", "rx_return"})

\* The first task was found running at every poll the bound allows, then
\* completed, and step 2 is next.
C33_Witness ==
    /\ pc = "rx_step2"
    /\ task.step = 1
    /\ task.state = "completed"
    /\ task.polls = MaxPolls


C35_DiagnosticsCapped ==
    Cardinality(printed) <= ERROR_CAP


\* C36: for every combination of the dataset and mode flags, the expected
\* count a count verifier compares against is the declared count of the
\* dataset variant whose URL was selected (500, 5000 or 48966); it is never
\* the count of another variant.
C36_ExpectedMatchesSelectedVariant ==
    /\ expected_count \in {0, DeclaredCount(DatasetUrl(args))}
    /\ pc \in {"mem_recheck", "reg_return", "raw_return"}
          => expected_count = DeclaredCount(DatasetUrl(args))

C36_Witness ==
    /\ args = {"use_500_dataset", "use_small_5k_dataset"}
    /\ pc = "reg_return"
    /\ expected_count = TINY_COUNT


\* C37: in the reindex operation the index properties is never deleted before
\* the task that copies it to original-properties has been observed
\* completed: the step that deletes it is taken only with a completed task
\* of step 1, and every deletion recorded follows the completion of that copy.
C37_DeleteAfterCopyCompleted ==
    /\ [][(pc \in {"rx_step1", "rx_poll1", "rx_step2", "rx_step3", "rx_step4"}
           /\ idx.exists /\ ~idx'.exists)
          => (task.step = 1 /\ task.state = "completed")]_vars
    /\ [](\A i \in Events("rx_delete") :
             LastBefore("reindex_done", i) > LastBefore("reindex_start", i)
             /\ LastBefore("reindex_start", i) > 0)

C37_Witness ==
    /\ pc = "rx_step3"
    /\ ~idx.exists
    /\ orig.exists
    /\ task.polls >= 1
    /\ task.state = "completed"


\* the events of the five steps of the reindex operation, in the order of
\* the code
RxStepOrder ==
    <<<<"reindex_start", 1>>, <<"reindex_done", 1>>, <<"rx_delete", 2>>,
      <<"rx_create", 3>>, <<"rx_delete", 4>>, <<"rx_create", 5>>,
      <<"reindex_start", 5>>, <<"reindex_done", 5>>>>

RxStepEvent(e) == e[1] \in {"reindex_start", "reindex_done", "rx_delete", "rx_create"}

\* C38: the five steps of the reindex operation run strictly in order; a
\* step that fails makes the operation return failure at once: no later step
\* runs, nothing done by the earlier steps is undone, and the caller exits
\* with a non-zero code.
C38_StepsInOrderFailFast ==
    /\ [](LET done == SelectSeq(log, RxStepEvent)
          IN  /\ Len(done) <= Len(RxStepOrder)
              /\ \A i \in 1..Len(done) : done[i] = RxStepOrder[i])
    /\ [](\A i \in Events("step_failed") :
             \/ i = Len(log) /\ pc = "rx_return" /\ ~success
             \/ i + 1 = Len(log) /\ log[i + 1] = <<"exit", 1>> /\ pc = "done")
    /\ [][(pc \in {"rx_step1", "rx_poll1", "rx_step2", "rx_step3", "rx_step4",
                   "rx_step5", "rx_poll5"}
           /\ pc' = "rx_return" /\ ~success')
          => (/\ orig' = orig
              /\ idx'.docs = idx.docs
              /\ idx.exists => idx' = idx)]_vars
    /\ [][(pc = "rx_return" /\ ~success) => (pc' = "done" /\ exit_code' = 1)]_vars

C38_Witness ==
    /\ pc = "done"
    /\ exit_code = 1
    /\ Count("step_failed") = 1
    /\ Count("rx_create") = 1
    /\ Count("reindex_start") = 1
    /\ orig.exists
    /\ idx.docs = 0


====
